---- MODULE Spec2Model ----
(***************************************************************************)
(* Multi-Agent AI Travel Advisor: the run of main() in main.py.  main      *)
(* checks the credential, builds seven specialist units and seven task     *)
(* descriptors (agents/agents.py, agents/tasks.py), hands them to a        *)
(* sequential crew, waits for the crew to finish and saves the itinerary.  *)
(***************************************************************************)
EXTENDS Integers, Sequences, FiniteSets, TLC

VARIABLES
    pc,        \* position of main(): see PcValues
    env,       \* value of os.getenv("OPENAI_API_KEY") after load_dotenv()
    crew,      \* <<>> before `crew = create_travel_crew(...)`, <<the crew>> after
    idx,       \* position in crew.tasks of the task the executor handles
    status,    \* per position of crew.tasks: pending, running, done, failed, hung
    output,    \* per position of crew.tasks: the task's result, None while unset
    calls,     \* the completion calls made so far, in the order they were made
    result,    \* the local `result` of main(), None until kickoff has returned
    stdout,    \* what main() has printed, as a sequence of markers
    file,      \* content of travel_itinerary.md, NoFile while it does not exist
    writes,    \* number of times travel_itinerary.md was opened for writing
    uncaught,  \* TRUE when an exception left main()
    _initialized,   \* TravelKnowledgeRAGTool._initialized (class attribute)
    _vectorstore,   \* TravelKnowledgeRAGTool._vectorstore: <<>> for None, else <<store>>
    instances,      \* the TravelKnowledgeRAGTool objects constructed so far
    initAttempts,   \* number of calls of _initialize_vectorstore
    initCompleted,  \* number of those calls that returned without raising
    chroma_db,      \* TRUE when ./data/chroma_db exists and is not empty
    lastRun,        \* <<>>, or <<the record of the latest call of _run>>
    call,           \* <<>>, or <<the record of the latest call of a factory or of a stateless tool>>
    disk,           \* per path of the working directory: <<>> absent, <<"dir">>, <<"file", content>>
    setupLog        \* the latest setup steps run, at most two: what ran and the disk it found

\* the state of main() and of the crew it runs
mainvars == <<pc, env, crew, idx, status, output, calls, result, stdout, file, writes, uncaught>>

\* the state of the knowledge tool of tools/travel_knowledge_rag_tool.py
ragvars == <<_initialized, _vectorstore, instances, initAttempts, initCompleted, chroma_db, lastRun>>

\* the stateless functions (agents/agents.py, agents/tasks.py, the search tools) and
\* the setup steps of setup.py and tools/rag_tool_setup.py
toolvars == <<call, disk, setupLog>>

vars == <<mainvars, ragvars, toolvars>>

None == "None"

(***************************************************************************)
(* Bounds of the model.                                                    *)
(***************************************************************************)
\* number of distinct texts a specialist's completion call may return
NumOutputs == 2

AllTexts == <<"text A", "text B", "text C", "text D">>

Outputs == {AllTexts[i] : i \in 1..NumOutputs}

\* the values os.getenv("OPENAI_API_KEY") can have: None (unset), "" or a key
EnvValues == {None, "", "sk-key"}

NoFile == <<>>

StaleFile == <<"stale">>

PcValues == {"load_env", "create", "kickoff", "executing", "save", "returned"}

(***************************************************************************)
(* agents/agents.py: the seven specialist unit factories.  An optional     *)
(* keyword argument is <<>> when it is not passed and <<v>> when it is.    *)
(***************************************************************************)
create_travel_manager(tools) ==
    [role |-> "Travel Planning Manager", tools |-> tools,
     allow_delegation |-> TRUE, max_iter |-> <<15>>]

create_flight_agent(tools) ==
    [role |-> "Flight Research Specialist", tools |-> tools,
     allow_delegation |-> FALSE, max_iter |-> <<>>]

create_accommodation_agent(tools) ==
    [role |-> "Accommodation Specialist", tools |-> tools,
     allow_delegation |-> FALSE, max_iter |-> <<>>]

create_activity_agent(tools) ==
    [role |-> "Activities & Experiences Curator", tools |-> tools,
     allow_delegation |-> FALSE, max_iter |-> <<>>]

\* a logistics coordinator that may delegate
create_logistics_agent_delegating(tools) ==
    [role |-> "Travel Logistics Coordinator", tools |-> tools,
     allow_delegation |-> TRUE, max_iter |-> <<>>]

create_logistics_agent(tools) ==
    [role |-> "Travel Logistics Coordinator", tools |-> tools,
     allow_delegation |-> FALSE, max_iter |-> <<>>]

create_itinerary_compiler_agent(tools) ==
    [role |-> "Itinerary Compiler & Optimizer", tools |-> tools,
     allow_delegation |-> FALSE, max_iter |-> <<>>]

create_travel_knowledge_agent(tools) ==
    [role |-> "Travel Knowledge Expert", tools |-> tools,
     allow_delegation |-> FALSE, max_iter |-> <<>>]

(***************************************************************************)
(* agents/tasks.py: the seven task descriptor factories.  A description is *)
(* the template's name followed by the runtime text the f-string embeds.   *)
(* A context is the list of the task descriptors given as `context=`; a    *)
(* factory that passes no `context=` declares no dependency.  The          *)
(* Optional `planning_context` argument is <<>> when it is None or another *)
(* falsy value, and <<t>> when it is the task descriptor t.                *)
(***************************************************************************)
\* Python truthiness of an Optional argument
Truthy(opt) == opt # <<>>

\* a planning task whose instruction leaves the request out
create_planning_task_no_request(agent, user_request) ==
    [description |-> <<"planning", "">>, agent |-> agent, context |-> <<>>]

create_planning_task(agent, user_request) ==
    [description |-> <<"planning", user_request>>, agent |-> agent, context |-> <<>>]

create_flight_research_task(agent, planning_context) ==
    [description |-> <<"flight">>, agent |-> agent,
     context |-> IF Truthy(planning_context) THEN <<planning_context[1]>> ELSE <<>>]

\* an accommodation task that declares the planning task without testing it
create_accommodation_research_task_unconditional(agent, planning_context) ==
    [description |-> <<"accommodation">>, agent |-> agent, context |-> <<planning_context>>]

create_accommodation_research_task(agent, planning_context) ==
    [description |-> <<"accommodation">>, agent |-> agent,
     context |-> IF Truthy(planning_context) THEN <<planning_context[1]>> ELSE <<>>]

create_activity_research_task(agent, planning_context) ==
    [description |-> <<"activity">>, agent |-> agent,
     context |-> IF Truthy(planning_context) THEN <<planning_context[1]>> ELSE <<>>]

\* a logistics task built without the `context=` argument
create_logistics_task_no_context(agent, planning_context) ==
    [description |-> <<"logistics">>, agent |-> agent, context |-> <<>>]

create_logistics_task(agent, planning_context) ==
    [description |-> <<"logistics">>, agent |-> agent,
     context |-> IF Truthy(planning_context) THEN <<planning_context[1]>> ELSE <<>>]

create_knowledge_consultation_task(agent, destination) ==
    [description |-> <<"knowledge", destination>>, agent |-> agent, context |-> <<>>]

\* a compilation task whose context names the flight task before the planning task
create_itinerary_compilation_task_swapped(agent, planning_task, flight_task, accommodation_task, activity_task, logistics_task, knowledge_task, user_request) ==
    [description |-> <<"compilation", user_request>>, agent |-> agent,
     context |-> <<flight_task, planning_task, accommodation_task, activity_task,
                   logistics_task, knowledge_task>>]

create_itinerary_compilation_task(agent, planning_task, flight_task, accommodation_task, activity_task, logistics_task, knowledge_task, user_request) ==
    [description |-> <<"compilation", user_request>>, agent |-> agent,
     context |-> <<planning_task, flight_task, accommodation_task, activity_task,
                   logistics_task, knowledge_task>>]

(***************************************************************************)
(* main.py: initialize_tools.  The function is defined and never called.   *)
(***************************************************************************)
initialize_tools ==
    [flight_tool |-> "FlightSearchTool",
     hotel_tool |-> "HotelSearchTool",
     activity_tool |-> "ActivitySearchTool",
     rag_tool |-> "TravelKnowledgeRAGTool"]

(***************************************************************************)
(* main.py: create_travel_crew.                                            *)
(***************************************************************************)
\* a crew whose agent list leaves the knowledge agent out
crew_agents_no_knowledge(travel_manager, flight_agent, accommodation_agent, activity_agent, logistics_agent, knowledge_agent, itinerary_compiler) ==
    <<travel_manager, flight_agent, accommodation_agent, activity_agent,
      logistics_agent, itinerary_compiler>>

\* the `agents=[...]` list of the Crew
crew_agents(travel_manager, flight_agent, accommodation_agent, activity_agent, logistics_agent, knowledge_agent, itinerary_compiler) ==
    <<travel_manager, flight_agent, accommodation_agent, activity_agent,
      logistics_agent, knowledge_agent, itinerary_compiler>>

\* a crew whose task list names the flight task before the planning task
crew_tasks_flight_first(planning_task, flight_task, accommodation_task, activity_task, logistics_task, knowledge_task, compilation_task) ==
    <<flight_task, planning_task, accommodation_task, activity_task,
      logistics_task, knowledge_task, compilation_task>>

\* a crew whose task list names the compilation task before the knowledge task
crew_tasks_compilation_early(planning_task, flight_task, accommodation_task, activity_task, logistics_task, knowledge_task, compilation_task) ==
    <<planning_task, flight_task, accommodation_task, activity_task,
      logistics_task, compilation_task, knowledge_task>>

\* a crew whose task list names the planning task last
crew_tasks_planning_last(planning_task, flight_task, accommodation_task, activity_task, logistics_task, knowledge_task, compilation_task) ==
    <<flight_task, accommodation_task, activity_task, logistics_task,
      knowledge_task, compilation_task, planning_task>>

\* the `tasks=[...]` list of the Crew
crew_tasks(planning_task, flight_task, accommodation_task, activity_task, logistics_task, knowledge_task, compilation_task) ==
    <<planning_task, flight_task, accommodation_task, activity_task,
      logistics_task, knowledge_task, compilation_task>>

create_travel_crew(user_request) ==
    LET travel_manager == create_travel_manager(<<>>)
        flight_agent == create_flight_agent(<<>>)
        accommodation_agent == create_accommodation_agent(<<>>)
        activity_agent == create_activity_agent(<<>>)
        logistics_agent == create_logistics_agent(<<>>)
        knowledge_agent == create_travel_knowledge_agent(<<>>)
        itinerary_compiler == create_itinerary_compiler_agent(<<>>)
        planning_task == create_planning_task(travel_manager, user_request)
        flight_task == create_flight_research_task(flight_agent, <<planning_task>>)
        accommodation_task ==
            create_accommodation_research_task(accommodation_agent, <<planning_task>>)
        activity_task == create_activity_research_task(activity_agent, <<planning_task>>)
        logistics_task == create_logistics_task(logistics_agent, <<planning_task>>)
        knowledge_task ==
            create_knowledge_consultation_task(
                knowledge_agent, "the destinations mentioned in the travel plan")
        compilation_task ==
            create_itinerary_compilation_task(
                itinerary_compiler, planning_task, flight_task, accommodation_task,
                activity_task, logistics_task, knowledge_task, user_request)
    IN  [agents |-> crew_agents(travel_manager, flight_agent, accommodation_agent,
                                activity_agent, logistics_agent, knowledge_agent,
                                itinerary_compiler),
         tasks |-> crew_tasks(planning_task, flight_task, accommodation_task,
                              activity_task, logistics_task, knowledge_task,
                              compilation_task),
         process |-> "sequential"]

(***************************************************************************)
(* main.py: main.                                                          *)
(***************************************************************************)
user_requests == <<"italy honeymoon", "paris solo trip", "barcelona family trip">>

\* user_requests[1] of the Python list, which counts from 0
selected_request == user_requests[2]

\* a file that holds the itinerary without the request
output_file_content_no_request(request, text) == <<"# Travel Itinerary", "", text>>

output_file_content(request, text) == <<"# Travel Itinerary", request, text>>

Tasks == IF crew = <<>> THEN <<>> ELSE crew[1].tasks

NumTasks == Len(Tasks)

\* position of task descriptor t in the crew's task list, 0 when it is not in it
PositionOf(t) ==
    IF \E i \in 1..NumTasks : Tasks[i] = t
    THEN CHOOSE i \in 1..NumTasks : Tasks[i] = t
    ELSE 0

\* the paths setup.py and tools/rag_tool_setup.py touch
SetupDirs == {"agents", "tools", "data", "data/travel_knowledge", "data/chroma_db"}

SampleDocuments ==
    {"data/travel_knowledge/europe_travel.txt", "data/travel_knowledge/paris_guide.txt",
     "data/travel_knowledge/luxury_travel.txt"}

SetupFiles == {".env", ".env.example", "agents/__init__.py", "tools/__init__.py"} \cup SampleDocuments

\* the working directory of a checkout: the two packages, no data, no .env
FreshCheckout ==
    [p \in SetupDirs \cup SetupFiles |->
        CASE p \in {"agents", "tools"} -> <<"dir">>
          [] p \in {"agents/__init__.py", "tools/__init__.py"} -> <<"file", "user content">>
          [] OTHER -> <<>>]

Init ==
    /\ pc = "load_env"
    /\ env \in EnvValues
    /\ crew = <<>>
    /\ idx = 0
    /\ status = <<>>
    /\ output = <<>>
    /\ calls = <<>>
    /\ result = None
    /\ stdout = <<>>
    /\ file \in {NoFile, StaleFile}
    /\ writes = 0
    /\ uncaught = FALSE
    /\ _initialized = FALSE
    /\ _vectorstore = <<>>
    /\ instances = <<>>
    /\ initAttempts = 0
    /\ initCompleted = 0
    /\ chroma_db \in BOOLEAN
    /\ lastRun = <<>>
    /\ call = <<>>
    /\ disk = FreshCheckout
    /\ setupLog = <<>>

\* an except clause that prints the diagnostic and raises again
ExceptHandler_reraises ==
    /\ stdout' = Append(stdout, "error")
    /\ pc' = "returned"
    /\ uncaught' = TRUE

\* the `except Exception` clause of main: print the diagnostic, fall off the end
ExceptHandler ==
    /\ stdout' = Append(stdout, "error")
    /\ pc' = "returned"
    /\ uncaught' = uncaught

\* load_dotenv() is called outside the try block: what it raises leaves main
LoadDotenvRaises ==
    /\ pc = "load_env"
    /\ pc' = "returned"
    /\ uncaught' = TRUE
    /\ UNCHANGED <<env, crew, idx, status, output, calls, result, stdout, file, writes, ragvars, toolvars>>

\* a credential check that tests `is None` only, so that an empty key passes
CheckApiKey_is_none ==
    /\ pc = "load_env"
    /\ IF env = None
       THEN /\ stdout' = Append(stdout, "no_api_key")
            /\ pc' = "returned"
       ELSE /\ stdout' = stdout \o <<"banner", "request">>
            /\ pc' = "create"
    /\ UNCHANGED <<env, crew, idx, status, output, calls, result, file, writes, uncaught, ragvars, toolvars>>

\* `if not os.getenv("OPENAI_API_KEY"): ... return`, then the banner and the request
CheckApiKey ==
    /\ pc = "load_env"
    /\ IF env = None \/ env = ""
       THEN /\ stdout' = Append(stdout, "no_api_key")
            /\ pc' = "returned"
       ELSE /\ stdout' = stdout \o <<"banner", "request">>
            /\ pc' = "create"
    /\ UNCHANGED <<env, crew, idx, status, output, calls, result, file, writes, uncaught, ragvars, toolvars>>

\* `crew = create_travel_crew(selected_request)` inside the try block
CreateTravelCrew ==
    /\ pc = "create"
    /\ crew' = <<create_travel_crew(selected_request)>>
    /\ status' = [i \in 1..Len(crew'[1].tasks) |-> "pending"]
    /\ output' = [i \in 1..Len(crew'[1].tasks) |-> None]
    /\ stdout' = Append(stdout, "starting")
    /\ pc' = "kickoff"
    /\ UNCHANGED <<env, idx, calls, result, file, writes, uncaught, ragvars, toolvars>>

\* a constructor of the framework raises while the crew is being built
CreateTravelCrewRaises ==
    /\ pc = "create"
    /\ ExceptHandler
    /\ UNCHANGED <<env, crew, idx, status, output, calls, result, file, writes, ragvars, toolvars>>

\* `crew.kickoff()` is entered
Kickoff ==
    /\ pc = "kickoff"
    /\ pc' = "executing"
    /\ idx' = 1
    /\ UNCHANGED <<env, crew, status, output, calls, result, stdout, file, writes, uncaught, ragvars, toolvars>>

(***************************************************************************)
(* The pipeline executor behind crew.kickoff() with process=sequential.    *)
(* It runs the task descriptors in the order of crew.tasks; for each it    *)
(* hands the instruction and the results of the declared dependencies to   *)
(* the owning specialist and stores the returned text as the task's        *)
(* result.  The completion call is outside the program: it returns a text, *)
(* raises, or never returns.                                               *)
(***************************************************************************)
\* the result of task descriptor t, None while it has none
ResultOf(t) == IF PositionOf(t) = 0 THEN None ELSE output[PositionOf(t)]

\* the results of the dependencies t declares, in the order it declares them
AssembleContext(t) == [i \in 1..Len(t.context) |-> ResultOf(t.context[i])]

\* the executor hands the task at idx to its specialist
ExecuteTask ==
    /\ pc = "executing"
    /\ idx \in 1..NumTasks
    /\ status[idx] = "pending"
    /\ status' = [status EXCEPT ![idx] = "running"]
    /\ calls' = Append(calls, [task |-> idx,
                               agent |-> Tasks[idx].agent.role,
                               instruction |-> Tasks[idx].description,
                               context |-> AssembleContext(Tasks[idx])])
    /\ UNCHANGED <<pc, env, crew, idx, output, result, stdout, file, writes, uncaught, ragvars, toolvars>>

\* the specialist's completion call returns a text: it becomes the task's result
TaskReturns ==
    /\ pc = "executing"
    /\ idx \in 1..NumTasks
    /\ status[idx] = "running"
    /\ \E text \in Outputs : output' = [output EXCEPT ![idx] = text]
    /\ status' = [status EXCEPT ![idx] = "done"]
    /\ idx' = idx + 1
    /\ UNCHANGED <<pc, env, crew, calls, result, stdout, file, writes, uncaught, ragvars, toolvars>>

\* the specialist's completion call raises: the exception leaves kickoff() and
\* reaches the except clause of main
TaskRaises ==
    /\ pc = "executing"
    /\ idx \in 1..NumTasks
    /\ status[idx] = "running"
    /\ status' = [status EXCEPT ![idx] = "failed"]
    /\ ExceptHandler
    /\ UNCHANGED <<env, crew, idx, output, calls, result, file, writes, ragvars, toolvars>>

\* the specialist's completion call never returns
TaskHangs ==
    /\ pc = "executing"
    /\ idx \in 1..NumTasks
    /\ status[idx] = "running"
    /\ status' = [status EXCEPT ![idx] = "hung"]
    /\ UNCHANGED <<pc, env, crew, idx, output, calls, result, stdout, file, writes, uncaught, ragvars, toolvars>>

\* every task of crew.tasks has been executed
KickoffDone == idx > NumTasks

\* the overall output of the run: the result of the last task
KickoffOutput == output[NumTasks]

(***************************************************************************)
(* main.py: main, after crew.kickoff().                                    *)
(***************************************************************************)
\* a main that builds the crew anew, for another request, once the run is over
KickoffReturns_rebuilds_crew ==
    /\ pc = "executing"
    /\ KickoffDone
    /\ result' = KickoffOutput
    /\ crew' = <<create_travel_crew(user_requests[1])>>
    /\ stdout' = stdout \o <<"complete", "itinerary">>
    /\ pc' = "save"
    /\ UNCHANGED <<env, idx, status, output, calls, file, writes, uncaught, ragvars, toolvars>>

\* a main that calls crew.kickoff() without keeping what it returns
KickoffReturns_drops_result ==
    /\ pc = "executing"
    /\ KickoffDone
    /\ result' = result
    /\ stdout' = stdout \o <<"complete", "itinerary">>
    /\ pc' = "save"
    /\ UNCHANGED <<env, crew, idx, status, output, calls, file, writes, uncaught, ragvars, toolvars>>

\* a main that goes on to print and save without waiting for the crew to finish
KickoffReturns_no_wait ==
    /\ pc = "executing"
    /\ idx \in 1..(NumTasks + 1)
    /\ result' = KickoffOutput
    /\ stdout' = stdout \o <<"complete", "itinerary">>
    /\ pc' = "save"
    /\ UNCHANGED <<env, crew, idx, status, output, calls, file, writes, uncaught, ragvars, toolvars>>

\* `result = crew.kickoff()` returns; the itinerary is printed
KickoffReturns ==
    /\ pc = "executing"
    /\ KickoffDone
    /\ result' = KickoffOutput
    /\ stdout' = stdout \o <<"complete", "itinerary">>
    /\ pc' = "save"
    /\ UNCHANGED <<env, crew, idx, status, output, calls, file, writes, uncaught, ragvars, toolvars>>

\* a main that saves in a `finally:` clause, so also after the except clause
SaveItinerary_in_finally ==
    /\ \/ pc = "save"
       \/ pc = "returned" /\ crew # <<>> /\ writes = 0
    /\ file' = output_file_content(selected_request, result)
    /\ writes' = writes + 1
    /\ stdout' = Append(stdout, "saved")
    /\ pc' = "returned"
    /\ UNCHANGED <<env, crew, idx, status, output, calls, result, uncaught, ragvars, toolvars>>

\* `with open(output_file, 'w') as f:` and the three writes
SaveItinerary ==
    /\ pc = "save"
    /\ file' = output_file_content(selected_request, result)
    /\ writes' = writes + 1
    /\ stdout' = Append(stdout, "saved")
    /\ pc' = "returned"
    /\ UNCHANGED <<env, crew, idx, status, output, calls, result, uncaught, ragvars, toolvars>>

\* open() raises and leaves the file as it was, or a write raises after open()
\* has truncated the file
SaveRaises ==
    /\ pc = "save"
    /\ \/ UNCHANGED <<file, writes>>
       \/ /\ file' = <<"# Travel Itinerary">>
          /\ writes' = writes + 1
    /\ ExceptHandler
    /\ UNCHANGED <<env, crew, idx, status, output, calls, result, ragvars, toolvars>>

Next ==
    \/ LoadDotenvRaises
    \/ CheckApiKey
    \/ CreateTravelCrew
    \/ CreateTravelCrewRaises
    \/ Kickoff
    \/ ExecuteTask
    \/ TaskReturns
    \/ TaskRaises
    \/ TaskHangs
    \/ KickoffReturns
    \/ SaveItinerary
    \/ SaveRaises

Spec == Init /\ [][Next]_vars

\* the single thread of main keeps running: some step is taken while one is possible
LiveSpec == Init /\ [][Next]_vars /\ WF_vars(Next)

(***************************************************************************)
(* Vocabulary of the properties.                                           *)
(***************************************************************************)
DeclaredOrder ==
    <<"planning", "flight", "accommodation", "activity", "logistics", "knowledge",
      "compilation">>

\* the name of the template a task descriptor was built from
TaskName(t) == t.description[1]

\* position in crew.tasks of the task built from template `name`, 0 when absent
PosByName(name) ==
    IF \E i \in 1..NumTasks : TaskName(Tasks[i]) = name
    THEN CHOOSE i \in 1..NumTasks : TaskName(Tasks[i]) = name
    ELSE 0

\* the tasks whose specialist call has been made (returned or not)
Started == {i \in 1..NumTasks : status[i] # "pending"}

Executing == {i \in 1..NumTasks : status[i] \in {"running", "hung"}}

AllDone == NumTasks = 7 /\ \A i \in 1..NumTasks : status[i] = "done"

AnyFailed == \E i \in 1..NumTasks : status[i] = "failed"

AnyHung == \E i \in 1..NumTasks : status[i] = "hung"

\* C1: the seven tasks are handed to their specialists in the declared order
\* planning, flight, accommodation, activity, logistics, knowledge, compilation;
\* a task is started only when every task before it in crew.tasks is done; and
\* at most one task is executing in any state.
C1_StrictlySequential ==
    /\ Len(calls) <= Len(DeclaredOrder)
    /\ \A n \in 1..Len(calls) :
          /\ calls[n].task = n
          /\ calls[n].instruction[1] = DeclaredOrder[n]
    /\ \A i \in Started : \A j \in 1..(i - 1) : status[j] = "done"
    /\ Cardinality(Executing) <= 1

C1_Witness ==
    /\ NumTasks = 7
    /\ status[7] = "running"
    /\ Len(calls) = 7

\* C2: the context handed over with task N holds the result strings of the
\* tasks N declares as dependencies, each completed when N was handed over,
\* one entry per declared dependency in the declared order, and nothing else.
C2_ContextIsDeclaredDependencies ==
    \A n \in 1..Len(calls) :
        LET t == Tasks[calls[n].task]
        IN  /\ Len(calls[n].context) = Len(t.context)
            /\ \A i \in 1..Len(t.context) :
                  /\ PositionOf(t.context[i]) \in 1..(calls[n].task - 1)
                  /\ status[PositionOf(t.context[i])] = "done"
                  /\ output[PositionOf(t.context[i])] \in Outputs
                  /\ calls[n].context[i] = output[PositionOf(t.context[i])]

C2_Witness ==
    /\ Len(calls) = 7
    /\ Len(calls[7].context) = 6
    /\ Len(calls[2].context) = 1
    /\ calls[7].context[1] # calls[7].context[2]

\* C3: in the crew built by create_travel_crew every task a task depends on
\* sits at a strictly earlier position of crew.tasks.
C3_DependenciesPrecede ==
    crew # <<>> =>
        \A i \in 1..NumTasks : \A k \in 1..Len(Tasks[i].context) :
            PositionOf(Tasks[i].context[k]) \in 1..(i - 1)

C3_Witness ==
    /\ crew # <<>>
    /\ NumTasks = 7
    /\ Len(Tasks[7].context) = 6
    /\ Len(Tasks[2].context) = 1

InStdout(marker) == \E i \in 1..Len(stdout) : stdout[i] = marker

MissingKey == env = None \/ env = ""

\* C4: the context handed over with the compilation task holds the results of
\* planning, flight, accommodation, activity, logistics and knowledge, in that
\* order, and the six are done when the compilation task is handed over.
C4_CompilationContext ==
    \A n \in 1..Len(calls) :
        calls[n].instruction[1] = "compilation" =>
            /\ Len(calls[n].context) = 6
            /\ \A k \in 1..6 :
                  /\ PosByName(DeclaredOrder[k]) \in 1..(calls[n].task - 1)
                  /\ status[PosByName(DeclaredOrder[k])] = "done"
                  /\ output[PosByName(DeclaredOrder[k])] \in Outputs
                  /\ calls[n].context[k] = output[PosByName(DeclaredOrder[k])]

C4_Witness ==
    \E n \in 1..Len(calls) :
        /\ calls[n].instruction[1] = "compilation"
        /\ calls[n].context[1] # calls[n].context[2]
        /\ calls[n].context[5] # calls[n].context[6]

FiveTasks == {"flight", "accommodation", "activity", "logistics", "knowledge"}

FourResearchTasks == {"flight", "accommodation", "activity", "logistics"}

\* whether the task built from template `name` declares the planning task
DeclaresPlanning(name) ==
    /\ PosByName(name) # 0
    /\ PosByName("planning") # 0
    /\ \E k \in 1..Len(Tasks[PosByName(name)].context) :
          Tasks[PosByName(name)].context[k] = Tasks[PosByName("planning")]

C6_FailureAbortsRun ==
    \A k \in 1..NumTasks :
        status[k] = "failed" =>
            /\ pc = "returned"
            /\ ~uncaught
            /\ stdout # <<>>
            /\ stdout[Len(stdout)] = "error"
            /\ \A j \in (k + 1)..NumTasks : status[j] = "pending"
            /\ Cardinality({n \in 1..Len(calls) : calls[n].task = k}) = 1
            /\ Len(calls) = k
            /\ result = None

C6_Witness ==
    /\ NumTasks = 7
    /\ status[3] = "failed"
    /\ status[4] = "pending"
    /\ pc = "returned"

\* C7: travel_itinerary.md is opened or changed only by a step taken after
\* kickoff has returned with all seven tasks done; once a task has failed the
\* file is never opened and keeps the content (or the absence) it had.
C7_NoPartialOutput ==
    /\ [](AnyFailed => writes = 0)
    /\ [][(file' # file \/ writes' # writes) =>
             (pc = "save" /\ AllDone /\ result = output[NumTasks])]_vars
    /\ [][AnyFailed => file' = file]_vars

C7_Witness ==
    /\ AnyFailed
    /\ pc = "returned"
    /\ file = StaleFile
    /\ status[7] = "failed"

\* C8: when OPENAI_API_KEY is unset or empty, no crew (agents, tasks) is ever
\* created, no task is handed over, and the output file is never written.
C8_MissingKeyAborts ==
    /\ [](MissingKey =>
             /\ pc \in {"load_env", "returned"}
             /\ crew = <<>>
             /\ status = <<>>
             /\ calls = <<>>
             /\ result = None
             /\ writes = 0)
    /\ [][MissingKey => file' = file]_vars

C8_Witness ==
    /\ env = ""
    /\ pc = "returned"
    /\ stdout = <<"no_api_key">>
    /\ file = StaleFile

\* the terminal state of a run: all seven tasks done and the result of the
\* compilation task, the last of crew.tasks, returned to main
Completed ==
    /\ AllDone
    /\ pc \in {"save", "returned"}
    /\ PosByName("compilation") = NumTasks
    /\ result \in Outputs
    /\ result = output[PosByName("compilation")]

\* C9: once the crew is kicked off, either some completion call fails or never
\* returns, or the run reaches the state where all seven tasks are done and the
\* result of the compilation task has been returned as the overall output.
C9_ReachesTerminalState == (pc = "executing") ~> (AnyFailed \/ AnyHung \/ Completed)

C9_Witness == Completed /\ pc = "save"

\* C10: while the completion call of task k never returns, main stays inside
\* kickoff(), no task after k is started, nothing is reported or saved, and no
\* step changes the state (no timeout, no cancellation).
C10_HangBlocksPipeline ==
    /\ [](\A k \in 1..NumTasks :
             status[k] = "hung" =>
                 /\ pc = "executing"
                 /\ \A j \in (k + 1)..NumTasks : status[j] = "pending"
                 /\ Len(calls) = k
                 /\ result = None
                 /\ writes = 0
                 /\ ~InStdout("complete")
                 /\ ~InStdout("saved")
                 /\ ~InStdout("error"))
    /\ [][AnyHung => UNCHANGED vars]_vars

C10_Witness ==
    /\ NumTasks = 7
    /\ status[4] = "hung"
    /\ status[3] = "done"

\* C12: after a successful run travel_itinerary.md holds the request that was
\* given to create_travel_crew followed by the value crew.kickoff() returned,
\* and in no run is the file opened for writing more than once.
C12_FileHoldsRequestAndItinerary ==
    /\ writes <= 1
    /\ InStdout("saved") =>
          /\ writes = 1
          /\ Len(file) = 3
          /\ file[2] = selected_request
          /\ file[2] = Tasks[PosByName("planning")].description[2]
          /\ file[3] = result
          /\ file[3] = output[NumTasks]
          /\ file[3] \in Outputs

C12_Witness ==
    /\ InStdout("saved")
    /\ pc = "returned"
    /\ file = <<"# Travel Itinerary", "paris solo trip", "text B">>

\* C13: the request given to create_travel_crew is embedded in the instruction
\* of the planning task and in the instruction of the compilation task, and is
\* part of the instruction handed over with each of the two.
C13_RequestInPlanningAndCompilation ==
    /\ crew # <<>> =>
          /\ Tasks[PosByName("planning")].description = <<"planning", selected_request>>
          /\ Tasks[PosByName("compilation")].description =
                <<"compilation", selected_request>>
    /\ \A n \in 1..Len(calls) :
          calls[n].instruction[1] \in {"planning", "compilation"} =>
              /\ Len(calls[n].instruction) = 2
              /\ calls[n].instruction[2] = selected_request
              /\ calls[n].instruction[2] = user_requests[2]

C13_Witness ==
    /\ Len(calls) = 7
    /\ calls[1].instruction = <<"planning", "paris solo trip">>
    /\ calls[7].instruction = <<"compilation", "paris solo trip">>
    /\ Len(calls[7].context) = 6

\* C14: once the crew is built no step changes it: the agents (role, tools,
\* delegation flag, maximum iterations) and the tasks (instruction, owner,
\* dependency list) stay as created.  A task's result is set if and only if
\* the task is done, and once set it never changes.
C14_OnlyResultsChange ==
    /\ [][crew # <<>> => crew' = crew]_vars
    /\ [](\A i \in 1..NumTasks : (output[i] # None) <=> (status[i] = "done"))
    /\ [][\A i \in 1..NumTasks : output[i] # None => output'[i] = output[i]]_vars

C14_Witness ==
    /\ AllDone
    /\ pc = "returned"
    /\ crew = <<create_travel_crew(selected_request)>>
    /\ output[1] = "text A"
    /\ output[7] = "text B"

\* the data-lookup collaborator of the specialist that owns the task built
\* from template `name`, None for a task without one
Collaborator(name) ==
    CASE name = "flight" -> initialize_tools.flight_tool
      [] name = "accommodation" -> initialize_tools.hotel_tool
      [] name = "activity" -> initialize_tools.activity_tool
      [] name = "knowledge" -> initialize_tools.rag_tool
      [] OTHER -> None

HasTool(agent, tool) == \E k \in 1..Len(agent.tools) : agent.tools[k] = tool

\* C15: while the flight, accommodation, activity or knowledge task is being
\* executed, the specialist that owns it has its data-lookup collaborator among
\* its tools, so that it is able to invoke it.
C15_SpecialistsCanInvokeCollaborators ==
    \A i \in 1..NumTasks :
        (status[i] = "running" /\ Collaborator(TaskName(Tasks[i])) # None) =>
            HasTool(Tasks[i].agent, Collaborator(TaskName(Tasks[i])))

\* the role of the specialist that owns the task built from template `name`
ExpectedOwner(name) ==
    CASE name = "planning" -> "Travel Planning Manager"
      [] name = "flight" -> "Flight Research Specialist"
      [] name = "accommodation" -> "Accommodation Specialist"
      [] name = "activity" -> "Activities & Experiences Curator"
      [] name = "logistics" -> "Travel Logistics Coordinator"
      [] name = "knowledge" -> "Travel Knowledge Expert"
      [] name = "compilation" -> "Itinerary Compiler & Optimizer"
      [] OTHER -> None

\* C16: each of the seven tasks of the crew is owned by the specialist meant
\* for it, no two tasks have the same owner, every owner is in the crew's agent
\* list, and each task is handed to its owner.
C16_SevenTasksSevenOwners ==
    /\ crew # <<>> =>
          /\ NumTasks = 7
          /\ \A i \in 1..NumTasks :
                /\ Tasks[i].agent.role = ExpectedOwner(TaskName(Tasks[i]))
                /\ \E a \in 1..Len(crew[1].agents) : crew[1].agents[a] = Tasks[i].agent
          /\ \A i, j \in 1..NumTasks : i # j => Tasks[i].agent # Tasks[j].agent
    /\ \A n \in 1..Len(calls) : calls[n].agent = ExpectedOwner(calls[n].instruction[1])

C16_Witness ==
    /\ Len(calls) = 7
    /\ calls[1].agent = "Travel Planning Manager"
    /\ calls[6].agent = "Travel Knowledge Expert"
    /\ calls[7].agent = "Itinerary Compiler & Optimizer"
    /\ Len(crew[1].agents) = 7

(***************************************************************************)
(* tools/travel_knowledge_rag_tool.py: TravelKnowledgeRAGTool.  The vector *)
(* store and the flag that guards its initialisation are attributes of the *)
(* class, shared by all its objects.  A store is a record: where it came   *)
(* from, the knowledge base it was built from, and the number of chunks it *)
(* holds; its chunks are named 1..chunks.                                  *)
(***************************************************************************)
\* number of TravelKnowledgeRAGTool objects constructed in one process
MaxInstances == 3

\* number of calls of _initialize_vectorstore in one process
MaxAttempts == 3

\* number of chunks a vector store holds
MaxChunks == 4

\* `k=3` of the call of similarity_search
SearchK == 3

\* the values given as knowledge_base_path
KbArgs == {None, "", "./kb_custom"}

Queries == {"visa requirements", "luxury tips"}

Destinations == {None, "", "Europe"}

\* `knowledge_base_path or "./data/travel_knowledge"`
knowledge_base_path(arg) ==
    IF arg = None \/ arg = "" THEN "./data/travel_knowledge" ELSE arg

\* the stores a call of _initialize_vectorstore that returns may leave in
\* _vectorstore: the persisted store when ./data/chroma_db is there, with
\* whatever it holds, else a store built from the documents of kb_path
InitializedStores(kb_path) ==
    IF chroma_db
    THEN {[origin |-> "loaded", source |-> "./data/chroma_db", chunks |-> n] :
             n \in 0..MaxChunks}
    ELSE {[origin |-> "created", source |-> kb_path, chunks |-> n] :
             n \in 1..MaxChunks}

\* a constructor that initialises the store whatever the flag says
NeedsInitialization_always == TRUE

\* `if not TravelKnowledgeRAGTool._initialized:`
NeedsInitialization == ~_initialized

\* TravelKnowledgeRAGTool(knowledge_base_path) returns an object: the store is
\* initialised first when the flag is not set, and the flag is set afterwards
RagToolInit ==
    /\ Len(instances) < MaxInstances
    /\ \E arg \in KbArgs :
          /\ instances' =
                Append(instances, [knowledge_base_path |-> knowledge_base_path(arg)])
          /\ IF NeedsInitialization
             THEN /\ initAttempts < MaxAttempts
                  /\ \E store \in InitializedStores(knowledge_base_path(arg)) :
                        _vectorstore' = <<store>>
                  /\ initAttempts' = initAttempts + 1
                  /\ initCompleted' = initCompleted + 1
                  /\ chroma_db' = TRUE
                  /\ _initialized' = TRUE
             ELSE UNCHANGED <<_vectorstore, initAttempts, initCompleted, chroma_db,
                              _initialized>>
    /\ UNCHANGED <<mainvars, toolvars, lastRun>>

\* a constructor that sets the flag before it initialises the store
RagToolInitRaises_flag_first ==
    /\ NeedsInitialization
    /\ initAttempts < MaxAttempts
    /\ initAttempts' = initAttempts + 1
    /\ _initialized' = TRUE
    /\ chroma_db' \in {chroma_db, TRUE}
    /\ UNCHANGED <<mainvars, toolvars, _vectorstore, instances, initCompleted, lastRun>>

\* TravelKnowledgeRAGTool(knowledge_base_path) raises: _initialize_vectorstore
\* raised (embeddings, loading, splitting or the store itself) before it
\* assigned _vectorstore; no object is returned and the flag is not set
RagToolInitRaises ==
    /\ NeedsInitialization
    /\ initAttempts < MaxAttempts
    /\ initAttempts' = initAttempts + 1
    /\ chroma_db' \in {chroma_db, TRUE}
    /\ UNCHANGED <<mainvars, toolvars, _initialized, _vectorstore, instances, initCompleted, lastRun>>

\* the sequences without repetition of at most n elements of S
DistinctSeqs(S, n) ==
    UNION {{f \in [1..m -> S] : \A i, j \in 1..m : i # j => f[i] # f[j]} : m \in 0..n}

Min(a, b) == IF a <= b THEN a ELSE b

\* what similarity_search(search_query, k) may do on a store: raise, or return
\* at most k of the store's chunks, in the order of its choice
SearchOutcomes(store, k) ==
    {<<"raise", "search failed">>} \cup
    {<<"ok", found>> : found \in DistinctSeqs(1..store.chunks, Min(k, store.chunks))}

\* `not TravelKnowledgeRAGTool._vectorstore`: None is falsy; a store that holds
\* nothing is falsy when the store class defines its length, truthy when not
StoreFalsy(vectorstore) ==
    IF vectorstore = <<>> THEN {TRUE}
    ELSE IF vectorstore[1].chunks = 0 THEN {TRUE, FALSE}
    ELSE {FALSE}

\* a _run without the try block around the search
rag_run_no_try(falsy, query, destination, outcome) ==
    LET search_query ==
            IF destination # None /\ destination # "" THEN <<destination, query>>
            ELSE <<query>>
    IN  IF falsy
        THEN [ret |-> <<"not initialized">>, searched |-> <<>>, raised |-> FALSE]
        ELSE IF outcome[1] = "raise"
        THEN [ret |-> <<>>, searched |-> <<search_query>>, raised |-> TRUE]
        ELSE IF outcome[2] = <<>>
        THEN [ret |-> <<"no relevant information", query>>,
              searched |-> <<search_query>>, raised |-> FALSE]
        ELSE [ret |-> <<"results", query, outcome[2]>>,
              searched |-> <<search_query>>, raised |-> FALSE]

\* TravelKnowledgeRAGTool._run(query, destination), given whether the store is
\* falsy and what the search does if it is made: the text returned (ret), the
\* search query if a search was made (searched), whether _run raised (raised)
rag_run(falsy, query, destination, outcome) ==
    LET search_query ==
            IF destination # None /\ destination # "" THEN <<destination, query>>
            ELSE <<query>>
    IN  IF falsy
        THEN [ret |-> <<"not initialized">>, searched |-> <<>>, raised |-> FALSE]
        ELSE IF outcome[1] = "raise"
        THEN [ret |-> <<"error", outcome[2]>>,
              searched |-> <<search_query>>, raised |-> FALSE]
        ELSE IF outcome[2] = <<>>
        THEN [ret |-> <<"no relevant information", query>>,
              searched |-> <<search_query>>, raised |-> FALSE]
        ELSE [ret |-> <<"results", query, outcome[2]>>,
              searched |-> <<search_query>>, raised |-> FALSE]

\* the outcomes of the search _run would make on the class's store
OutcomesNow ==
    IF _vectorstore = <<>> THEN {<<"raise", "no store">>}
    ELSE SearchOutcomes(_vectorstore[1], SearchK)

\* `result = tool._run(query, destination)` on one of the objects constructed
RagRun ==
    /\ instances # <<>>
    /\ lastRun = <<>>
    /\ \E query \in Queries, destination \in Destinations,
          falsy \in StoreFalsy(_vectorstore), outcome \in OutcomesNow :
          lastRun' = <<[query |-> query,
                        destination |-> destination,
                        store |-> _vectorstore,
                        falsy |-> falsy,
                        outcome |-> outcome,
                        out |-> rag_run(falsy, query, destination, outcome)]>>
    /\ UNCHANGED <<mainvars, toolvars, _initialized, _vectorstore, instances, initAttempts,
                   initCompleted, chroma_db>>

\* `print(result)`: the caller is done with what _run returned
RagPrintResult ==
    /\ lastRun # <<>>
    /\ lastRun' = <<>>
    /\ UNCHANGED <<mainvars, toolvars, _initialized, _vectorstore, instances, initAttempts,
                   initCompleted, chroma_db>>

\* a process that constructs knowledge tools and calls them; main() is not run
RagInit ==
    /\ Init
    /\ env = "sk-key"
    /\ file = NoFile

RagNext ==
    \/ RagToolInit
    \/ RagToolInitRaises
    \/ RagRun
    \/ RagPrintResult

RagSpec == RagInit /\ [][RagNext]_vars

\* C18: in one process the shared store is initialised at most once: once a
\* construction has completed the initialisation, no later step, whatever
\* knowledge_base_path it is given, initialises again or replaces the store,
\* and every object constructed finds the one store of the class set.
C18_StoreInitialisedAtMostOnce ==
    /\ [](initCompleted <= 1)
    /\ [](instances # <<>> => (_initialized /\ _vectorstore # <<>>))
    /\ [][_initialized =>
             /\ _initialized'
             /\ _vectorstore' = _vectorstore
             /\ initAttempts' = initAttempts
             /\ initCompleted' = initCompleted]_vars

C18_Witness ==
    /\ Len(instances) = 3
    /\ initCompleted = 1
    /\ _vectorstore # <<>>
    /\ _vectorstore[1].source = "./data/travel_knowledge"
    /\ instances[1].knowledge_base_path = "./data/travel_knowledge"
    /\ instances[3].knowledge_base_path = "./kb_custom"

\* C19: the flag is set only when an initialisation has returned without
\* raising; a construction whose initialisation raises leaves the flag unset
\* and the store as it was; and a construction that finds the flag unset
\* initialises.
C19_FlagSetOnlyAfterCompletedInitialisation ==
    /\ [](_initialized => (initCompleted >= 1 /\ _vectorstore # <<>>))
    /\ [][(initAttempts' > initAttempts /\ initCompleted' = initCompleted) =>
             (~_initialized' /\ _vectorstore' = _vectorstore /\ instances' = instances)]_vars
    /\ [][(~_initialized /\ instances' # instances) =>
             (initAttempts' = initAttempts + 1 /\ initCompleted' = initCompleted + 1)]_vars

C19_Witness ==
    /\ initAttempts = 3
    /\ initCompleted = 1
    /\ _initialized
    /\ Len(instances) = 1

\* C20: _run never raises and always returns a text.  With no store set it
\* returns the 'not initialized' message and makes no search; when the search
\* raises it returns an error message; when the search finds nothing it returns
\* the 'no relevant information' message; otherwise it returns at most 3
\* results, in the order the search returned them.
C20_RunAlwaysReturnsText ==
    /\ \A falsy \in StoreFalsy(<<>>), query \in Queries, destination \in Destinations,
          outcome \in {<<"raise", "no store">>, <<"ok", <<>>>>, <<"ok", <<1>>>>} :
          rag_run(falsy, query, destination, outcome) =
              [ret |-> <<"not initialized">>, searched |-> <<>>, raised |-> FALSE]
    /\ lastRun # <<>> =>
          LET r == lastRun[1]
          IN  /\ ~r.out.raised
              /\ r.out.ret # <<>>
              /\ (r.store = <<>> \/ r.falsy) =>
                    (r.out.ret = <<"not initialized">> /\ r.out.searched = <<>>)
              /\ (~r.falsy /\ r.outcome[1] = "raise") =>
                    (Len(r.out.ret) = 2 /\ r.out.ret[1] = "error")
              /\ (~r.falsy /\ r.outcome[1] = "ok" /\ r.outcome[2] = <<>>) =>
                    r.out.ret = <<"no relevant information", r.query>>
              /\ (~r.falsy /\ r.outcome[1] = "ok" /\ r.outcome[2] # <<>>) =>
                    /\ Len(r.out.ret) = 3
                    /\ r.out.ret[1] = "results"
                    /\ Len(r.out.ret[3]) <= 3
                    /\ r.out.ret[3] = r.outcome[2]

C20_Witness ==
    /\ lastRun # <<>>
    /\ lastRun[1].out.ret = <<"results", "visa requirements", <<3, 1, 2>>>>
    /\ lastRun[1].out.searched = <<<<"Europe", "visa requirements">>>>

(***************************************************************************)
(* agents/agents.py and agents/tasks.py called on their own: each factory  *)
(* is a function of its arguments and keeps no state.                      *)
(***************************************************************************)
AgentFactories ==
    {"create_travel_manager", "create_flight_agent", "create_accommodation_agent",
     "create_activity_agent", "create_logistics_agent",
     "create_itinerary_compiler_agent", "create_travel_knowledge_agent"}

ResearchTaskFactories ==
    {"create_flight_research_task", "create_accommodation_research_task",
     "create_activity_research_task", "create_logistics_task"}

PlainTaskFactories == {"create_planning_task", "create_knowledge_consultation_task"}

\* the `tools` arguments tried: lists, so order and repetition are kept
ToolLists ==
    {<<>>, <<"FlightSearchTool">>, <<"HotelSearchTool", "ActivitySearchTool">>,
     <<"ActivitySearchTool", "HotelSearchTool">>}

AgentFactory(name, tools) ==
    CASE name = "create_travel_manager" -> create_travel_manager(tools)
      [] name = "create_flight_agent" -> create_flight_agent(tools)
      [] name = "create_accommodation_agent" -> create_accommodation_agent(tools)
      [] name = "create_activity_agent" -> create_activity_agent(tools)
      [] name = "create_logistics_agent" -> create_logistics_agent(tools)
      [] name = "create_itinerary_compiler_agent" -> create_itinerary_compiler_agent(tools)
      [] name = "create_travel_knowledge_agent" -> create_travel_knowledge_agent(tools)

ResearchTaskFactory(name, agent, planning_context) ==
    CASE name = "create_flight_research_task" -> create_flight_research_task(agent, planning_context)
      [] name = "create_accommodation_research_task" -> create_accommodation_research_task(agent, planning_context)
      [] name = "create_activity_research_task" -> create_activity_research_task(agent, planning_context)
      [] name = "create_logistics_task" -> create_logistics_task(agent, planning_context)

PlainTaskFactory(name, agent, text) ==
    CASE name = "create_planning_task" -> create_planning_task(agent, text)
      [] name = "create_knowledge_consultation_task" -> create_knowledge_consultation_task(agent, text)

\* the agents a task factory is given
FactoryAgents == {AgentFactory(name, tools) : name \in AgentFactories, tools \in ToolLists}

\* the `planning_context` arguments tried: absent, or a planning task
PlanningContexts ==
    {<<>>} \cup {<<create_planning_task(create_travel_manager(<<>>), user_requests[i])>> :
                    i \in 1..Len(user_requests)}

\* the text arguments of the planning and the knowledge factory
FactoryTexts ==
    {user_requests[i] : i \in 1..Len(user_requests)}
        \cup {"the destinations mentioned in the travel plan"}

CallAgentFactory ==
    /\ \E name \in AgentFactories, tools \in ToolLists :
          call' = <<[fn |-> name, tools |-> tools, out |-> AgentFactory(name, tools)]>>
    /\ UNCHANGED <<mainvars, ragvars, disk, setupLog>>

CallResearchTaskFactory ==
    /\ \E name \in ResearchTaskFactories, agent \in FactoryAgents,
          planning_context \in PlanningContexts :
          call' = <<[fn |-> name, agent |-> agent, planning_context |-> planning_context,
                     out |-> ResearchTaskFactory(name, agent, planning_context)]>>
    /\ UNCHANGED <<mainvars, ragvars, disk, setupLog>>

CallPlainTaskFactory ==
    /\ \E name \in PlainTaskFactories, agent \in FactoryAgents, text \in FactoryTexts :
          call' = <<[fn |-> name, agent |-> agent, text |-> text,
                     out |-> PlainTaskFactory(name, agent, text)]>>
    /\ UNCHANGED <<mainvars, ragvars, disk, setupLog>>

FactoryInit == Init /\ env = "sk-key" /\ file = NoFile /\ ~chroma_db

FactoryNext == CallAgentFactory \/ CallResearchTaskFactory \/ CallPlainTaskFactory

FactorySpec == FactoryInit /\ [][FactoryNext]_vars

\* C21: a research task factory (flight, accommodation, activity, logistics)
\* declares exactly the planning context it is given, and nothing when none is
\* given; the planning and the knowledge factory declare no dependency.
C21_ResearchFactoriesDeclareGivenContext ==
    call # <<>> =>
        LET c == call[1]
        IN  /\ c.fn \in ResearchTaskFactories =>
                 /\ Truthy(c.planning_context) => c.out.context = <<c.planning_context[1]>>
                 /\ ~Truthy(c.planning_context) => c.out.context = <<>>
                 /\ c.out.agent = c.agent
            /\ c.fn \in PlainTaskFactories => c.out.context = <<>>

C21_Witness ==
    /\ call # <<>>
    /\ call[1].fn = "create_accommodation_research_task"
    /\ call[1].planning_context = <<>>
    /\ call[1].out.context = <<>>

\* C22: of the seven agent factories exactly one, the Travel Planning
\* Manager's, allows delegation and sets a maximum iteration count, 15; every
\* other one disallows delegation; each passes its tool list through unchanged.
C22_OnlyManagerDelegates ==
    /\ Cardinality({name \in AgentFactories : AgentFactory(name, <<>>).allow_delegation}) = 1
    /\ Cardinality({AgentFactory(name, <<>>).role : name \in AgentFactories}) = 7
    /\ (call # <<>> /\ call[1].fn \in AgentFactories) =>
          LET c == call[1]
          IN  /\ c.out.tools = c.tools
              /\ c.out.allow_delegation <=> c.out.role = "Travel Planning Manager"
              /\ c.out.role = "Travel Planning Manager" <=> c.fn = "create_travel_manager"
              /\ c.out.max_iter = IF c.fn = "create_travel_manager" THEN <<15>> ELSE <<>>

C22_Witness ==
    /\ call # <<>>
    /\ call[1].fn = "create_travel_manager"
    /\ call[1].tools = <<"ActivitySearchTool", "HotelSearchTool">>
    /\ call[1].out.allow_delegation
    /\ call[1].out.max_iter = <<15>>

(***************************************************************************)
(* tools/flight_search_tool.py: FlightSearchTool._run.  The tool keeps no  *)
(* state; what `random` draws is chosen by the step.  Money is counted in  *)
(* cents, a price variance in units of 1/100000.                           *)
(***************************************************************************)
\* `for i in range(3)`
NumFlights == 3

\* `random.randint(0, 2)`
MaxLayovers == 2

hub_cities == <<"Atlanta", "Chicago", "Dubai", "Amsterdam", "Frankfurt", "Istanbul">>

\* the hub cities the draws are taken from
NumHubsDrawn == 3

HubsDrawn == {hub_cities[i] : i \in 1..NumHubsDrawn}

\* values of `random.uniform(0.8, 1.3)`: the lowest, and two that round to one price
PriceVariances == {80000, 99999, 100001}

FlightOrigins == {"New York"}

FlightDestinations == {"Chicago", "Paris"}

CabinClasses == {"economy", "business"}

TravelerCounts == {1, 2}

\* `any(keyword.lower() in f"{origin} {destination}".lower() ...)` on the routes tried
international_route(origin, destination) == origin = "Paris" \/ destination = "Paris"

\* the class multipliers, in tenths
cabin_multiplier(cabin_class) ==
    CASE cabin_class = "economy" -> 10
      [] cabin_class = "premium_economy" -> 16
      [] cabin_class = "business" -> 35
      [] cabin_class = "first" -> 60
      [] OTHER -> 10

\* in dollars: every base times every multiplier is a whole number
calculate_base_price(origin, destination, cabin_class) ==
    ((IF international_route(origin, destination) THEN 800 ELSE 300)
        * cabin_multiplier(cabin_class)) \div 10

\* round(x, 2) of an amount given in 1/100000 of a dollar: cents, ties to even
round_cents(amount) ==
    LET q == amount \div 1000
        r == amount % 1000
    IN  IF r > 500 \/ (r = 500 /\ q % 2 = 1) THEN q + 1 ELSE q

\* `random.sample(hub_cities, n)`: n distinct cities, in any order
random_sample(cities, n) == {c \in DistinctSeqs(cities, n) : Len(c) = n}

get_layover_cities(layovers, sample) == IF layovers = 0 THEN <<>> ELSE sample

\* the draws for one flight: layover count, the sample of hubs, the variance
FlightDraws ==
    UNION {{[layovers |-> n, sample |-> c, price_variance |-> v] :
               c \in random_sample(HubsDrawn, Min(n, Len(hub_cities))), v \in PriceVariances} :
           n \in 0..MaxLayovers}

make_flight(draw, base_price, travelers) ==
    [layovers |-> draw.layovers,
     layover_cities |-> get_layover_cities(draw.layovers, draw.sample),
     price_per_person |-> round_cents(base_price * draw.price_variance),
     total_price |-> round_cents(base_price * draw.price_variance * travelers)]

\* a list left in the order the flights were generated
sort_by_price_skipped(flights) == flights

RECURSIVE insert_by_price(_, _)
\* place f after every flight of the sorted list whose price is not higher
insert_by_price(sorted, f) ==
    IF sorted = <<>> THEN <<f>>
    ELSE IF Head(sorted).price_per_person <= f.price_per_person
         THEN <<Head(sorted)>> \o insert_by_price(Tail(sorted), f)
         ELSE <<f>> \o sorted

RECURSIVE sort_by_price_from(_, _, _)
sort_by_price_from(flights, i, sorted) ==
    IF i > Len(flights) THEN sorted
    ELSE sort_by_price_from(flights, i + 1, insert_by_price(sorted, flights[i]))

\* `flights.sort(key=lambda x: x["price_per_person"])`: stable
sort_by_price(flights) == sort_by_price_from(flights, 1, <<>>)

\* the options of the returned text, in the order they are listed
format_flights(flights) ==
    [n \in 1..Len(flights) |->
        [option |-> n,
         price_per_person |-> flights[n].price_per_person,
         layovers |-> flights[n].layovers,
         listed_cities |-> IF flights[n].layovers > 0 THEN flights[n].layover_cities ELSE <<>>,
         total_price |-> flights[n].total_price]]

flight_run(origin, destination, travelers, cabin_class, draws) ==
    LET base_price == calculate_base_price(origin, destination, cabin_class)
        flights == [i \in 1..NumFlights |-> make_flight(draws[i], base_price, travelers)]
    IN  format_flights(sort_by_price(flights))

\* `print(result)` of test_tools.py: the caller is done with the result
PrintResult ==
    /\ call # <<>>
    /\ call' = <<>>
    /\ UNCHANGED <<mainvars, ragvars, disk, setupLog>>

FlightRun ==
    /\ call = <<>>
    /\ \E origin \in FlightOrigins, destination \in FlightDestinations,
          travelers \in TravelerCounts, cabin_class \in CabinClasses,
          draws \in [1..NumFlights -> FlightDraws] :
          call' = <<[fn |-> "FlightSearchTool._run", origin |-> origin,
                     destination |-> destination, travelers |-> travelers,
                     cabin_class |-> cabin_class, draws |-> draws,
                     out |-> flight_run(origin, destination, travelers, cabin_class, draws)]>>
    /\ UNCHANGED <<mainvars, ragvars, disk, setupLog>>

FlightInit == Init /\ env = "sk-key" /\ file = NoFile /\ ~chroma_db

FlightNext == FlightRun \/ PrintResult

FlightSpec == FlightInit /\ [][FlightNext]_vars

\* the elements of a sequence are pairwise distinct
PairwiseDistinct(seq) == \A i, j \in 1..Len(seq) : i # j => seq[i] # seq[j]

\* C23: FlightSearchTool._run returns exactly 3 options, listed in
\* non-decreasing order of price per person; an option lists layover cities
\* only when its layover count is positive, and then as many cities as
\* layovers, pairwise distinct.
C23_ThreeFlightsCheapestFirst ==
    call # <<>> =>
        LET out == call[1].out
        IN  /\ Len(out) = 3
            /\ \A i \in 1..(Len(out) - 1) : out[i].price_per_person <= out[i + 1].price_per_person
            /\ \A i \in 1..Len(out) :
                  /\ out[i].listed_cities # <<>> => out[i].layovers > 0
                  /\ out[i].layovers > 0 =>
                        /\ Len(out[i].listed_cities) = out[i].layovers
                        /\ PairwiseDistinct(out[i].listed_cities)

C23_Witness ==
    /\ call # <<>>
    /\ call[1].draws[1].price_variance = 100001
    /\ call[1].draws[2].price_variance = 99999
    /\ call[1].draws[3].price_variance = 80000
    /\ call[1].draws[1].layovers = 2
    /\ call[1].out[1].price_per_person < call[1].out[2].price_per_person
    /\ call[1].out[2].price_per_person = call[1].out[3].price_per_person
    /\ call[1].out[2].layovers = 2
    /\ Len(call[1].out[2].listed_cities) = 2

(***************************************************************************)
(* tools/hotel_search_tool.py: HotelSearchTool._run.  A rating argument is *)
(* counted in hundredths of a star and a stored rating in tenths; a budget *)
(* and an unrounded price in thousandths of a dollar, a stored price in    *)
(* cents.  An Optional budget is <<>> for None and <<b>> for the value b.  *)
(***************************************************************************)
\* `for i in range(5)`
NumHotels == 5

\* the upper end of `random.uniform(min_rating, 5.0)`, in hundredths
TopRating == 500

HotelDestinations == {"Paris", "Lisbon"}

\* 3.0 (the default), 4.24 and 4.5
MinRatings == {300, 424, 450}

\* None, 0, 99.999 and 150.00
Budgets == {<<>>, <<0>>, <<99999>>, <<150000>>}

\* `(check_out_date - check_in_date).days` of the dates tried
Nights == {3}

\* `for city, price in base_prices.items(): if city in destination.lower()` on the
\* destinations tried: the first city of the table the destination names
hotel_base_price(destination) ==
    CASE destination = "Paris" -> 150
      [] destination = "London" -> 160
      [] destination = "Rome" -> 120
      [] destination = "Tokyo" -> 130
      [] destination = "New York" -> 180
      [] destination = "Barcelona" -> 110
      [] destination = "Dubai" -> 140
      [] OTHER -> 100

\* base * (0.5 + (rating / 5.0) * 1.5), in thousandths of a dollar, rating in tenths
calculate_price(destination, rating) == hotel_base_price(destination) * (50 + 3 * rating) * 10

\* round(x, 1) of a rating given in hundredths: tenths, ties to even
round_tenths(hundredths) ==
    LET q == hundredths \div 10
        r == hundredths % 10
    IN  IF r > 5 \/ (r = 5 /\ q % 2 = 1) THEN q + 1 ELSE q

\* round(x, 2) of a price given in thousandths of a dollar: cents, ties to even
round_price(thousandths) ==
    LET q == thousandths \div 10
        r == thousandths % 10
    IN  IF r > 5 \/ (r = 5 /\ q % 2 = 1) THEN q + 1 ELSE q

\* values `random.uniform(min_rating, 5.0)` can return: the low end, the middle
\* and the high end
rating_draw(min_rating, position) ==
    CASE position = 1 -> min_rating
      [] position = 2 -> (min_rating + TopRating) \div 2
      [] OTHER -> TopRating

\* values `random.uniform(budget * 0.7, budget)` can return: the low end and one
\* just below the high end
price_draw(budget, position) ==
    IF position = 1 THEN (budget * 7) \div 10 ELSE budget - 2

\* the budget test of line 66: `budget_per_night and price_per_night > budget_per_night`
over_budget(budget_per_night, price_per_night) ==
    /\ budget_per_night # <<>>
    /\ budget_per_night[1] # 0
    /\ price_per_night > budget_per_night[1]

\* the draws for one hotel: position on the rating range, position on the price range
HotelDraws == [rating : 1..3, price : 1..2]

make_hotel(draw, destination, nights, min_rating, budget_per_night) ==
    LET rating == round_tenths(rating_draw(min_rating, draw.rating))
        price == calculate_price(destination, rating)
        price_per_night == IF over_budget(budget_per_night, price)
                           THEN price_draw(budget_per_night[1], draw.price)
                           ELSE price
    IN  [rating |-> rating,
         price_per_night |-> round_price(price_per_night),
         total_price |-> round_price(price_per_night * nights)]

\* a list sorted by rating alone
hotel_key_le_rating_only(a, b) == a.rating >= b.rating

\* the key of line 87 puts a before b, or leaves them in the order they are in
hotel_key_le(a, b) ==
    \/ a.rating > b.rating
    \/ a.rating = b.rating /\ a.price_per_night <= b.price_per_night

RECURSIVE insert_hotel(_, _)
insert_hotel(sorted, h) ==
    IF sorted = <<>> THEN <<h>>
    ELSE IF hotel_key_le(Head(sorted), h)
         THEN <<Head(sorted)>> \o insert_hotel(Tail(sorted), h)
         ELSE <<h>> \o sorted

RECURSIVE sort_hotels_from(_, _, _)
sort_hotels_from(hotels, i, sorted) ==
    IF i > Len(hotels) THEN sorted
    ELSE sort_hotels_from(hotels, i + 1, insert_hotel(sorted, hotels[i]))

\* `hotels.sort(key=lambda x: (-x["rating"], x["price_per_night"]))`: stable
sort_hotels(hotels) == sort_hotels_from(hotels, 1, <<>>)

\* the options of the returned text, in the order they are listed
format_hotels(hotels) ==
    [n \in 1..Len(hotels) |->
        [option |-> n, rating |-> hotels[n].rating,
         price_per_night |-> hotels[n].price_per_night,
         total_price |-> hotels[n].total_price]]

hotel_run(destination, nights, min_rating, budget_per_night, draws) ==
    LET hotels == [i \in 1..NumHotels |->
                      make_hotel(draws[i], destination, nights, min_rating, budget_per_night)]
    IN  format_hotels(sort_hotels(hotels))

HotelRun ==
    /\ call = <<>>
    /\ \E destination \in HotelDestinations, nights \in Nights, min_rating \in MinRatings,
          budget_per_night \in Budgets, draws \in [1..NumHotels -> HotelDraws] :
          call' = <<[fn |-> "HotelSearchTool._run", destination |-> destination,
                     nights |-> nights, min_rating |-> min_rating,
                     budget_per_night |-> budget_per_night, draws |-> draws,
                     out |-> hotel_run(destination, nights, min_rating, budget_per_night, draws)]>>
    /\ UNCHANGED <<mainvars, ragvars, disk, setupLog>>

HotelInit == Init /\ env = "sk-key" /\ file = NoFile /\ ~chroma_db

HotelNext == HotelRun \/ PrintResult

HotelSpec == HotelInit /\ [][HotelNext]_vars

\* C24: HotelSearchTool._run returns exactly 5 options, ordered by rating
\* descending and, among options of equal rating, by price per night ascending.
C24_FiveHotelsBestRatedFirst ==
    call # <<>> =>
        LET out == call[1].out
        IN  /\ Len(out) = 5
            /\ \A i \in 1..(Len(out) - 1) :
                  \/ out[i].rating > out[i + 1].rating
                  \/ /\ out[i].rating = out[i + 1].rating
                     /\ out[i].price_per_night <= out[i + 1].price_per_night

C24_Witness ==
    /\ call # <<>>
    /\ call[1].budget_per_night = <<150000>>
    /\ call[1].draws[1].rating = 1
    /\ call[1].draws[2].rating = 3
    /\ call[1].draws[2].price = 2
    /\ call[1].draws[3].rating = 3
    /\ call[1].draws[3].price = 1
    /\ call[1].out[1].rating = call[1].out[2].rating
    /\ call[1].out[1].price_per_night < call[1].out[2].price_per_night
    /\ call[1].out[4].rating > call[1].out[5].rating

\* C25: whenever a budget per night is supplied, every returned option's price
\* per night is at most that budget.
C25_PriceWithinBudget ==
    (call # <<>> /\ call[1].budget_per_night # <<>>) =>
        \A i \in 1..Len(call[1].out) :
            call[1].out[i].price_per_night * 10 <= call[1].budget_per_night[1]

\* C26: every returned option's rating is at least the minimum rating
\* supplied and at most 5.0.
C26_RatingWithinBounds ==
    call # <<>> =>
        \A i \in 1..Len(call[1].out) :
            /\ call[1].out[i].rating * 10 >= call[1].min_rating
            /\ call[1].out[i].rating * 10 <= TopRating

(***************************************************************************)
(* Text.  Where the code looks inside a string (lower(), strip(), split(), *)
(* `in`), the string is the sequence of its characters.                    *)
(***************************************************************************)
UpperLetters == <<"A", "B", "C", "D", "E", "F", "G", "H", "I", "J", "K", "L", "M", "N", "O", "P", "Q", "R", "S", "T", "U", "V", "W", "X", "Y", "Z">>

LowerLetters == <<"a", "b", "c", "d", "e", "f", "g", "h", "i", "j", "k", "l", "m", "n", "o", "p", "q", "r", "s", "t", "u", "v", "w", "x", "y", "z">>

lower_char(c) ==
    IF \E i \in 1..Len(UpperLetters) : UpperLetters[i] = c
    THEN LowerLetters[CHOOSE i \in 1..Len(UpperLetters) : UpperLetters[i] = c]
    ELSE c

\* str.lower()
str_lower(s) == [i \in 1..Len(s) |-> lower_char(s[i])]

\* `w in s` for two strings
str_contains(s, w) == \E i \in 0..(Len(s) - Len(w)) : SubSeq(s, i + 1, i + Len(w)) = w

Whitespace == {" ", "\t", "\n"}

RECURSIVE str_lstrip(_)
str_lstrip(s) == IF s # <<>> /\ Head(s) \in Whitespace THEN str_lstrip(Tail(s)) ELSE s

RECURSIVE str_rstrip(_)
str_rstrip(s) ==
    IF s # <<>> /\ s[Len(s)] \in Whitespace THEN str_rstrip(SubSeq(s, 1, Len(s) - 1)) ELSE s

\* str.strip()
str_strip(s) == str_rstrip(str_lstrip(s))

RECURSIVE str_split_from(_, _, _, _)
\* parts: the pieces closed so far; piece: the piece being read
str_split_from(s, sep, parts, piece) ==
    IF s = <<>> THEN Append(parts, piece)
    ELSE IF Head(s) = sep
         THEN str_split_from(Tail(s), sep, Append(parts, piece), <<>>)
         ELSE str_split_from(Tail(s), sep, parts, Append(piece, Head(s)))

\* str.split(sep) for a separator of one character
str_split(s, sep) == str_split_from(s, sep, <<>>, <<>>)

(***************************************************************************)
(* tools/activity_search_tool.py: ActivitySearchTool._run.  The catalogue  *)
(* is the list of its (key, activities) pairs in the order of the dict.    *)
(***************************************************************************)
\* `min(2, len(activity_db[interest]))`
SamplePerInterest == 2

\* `random.sample(activity_db["general"], 3)`
GeneralSample == 3

\* `activities[:6]`
ActivityLimit == 6

get_activity_database ==
    <<<<<<"f", "o", "o", "d">>,
        <<<<"F", "o", "o", "d", " ", "W", "a", "l", "k", "i", "n", "g", " ", "T", "o", "u", "r">>,
          <<"C", "o", "o", "k", "i", "n", "g", " ", "C", "l", "a", "s", "s", " ", "w", "i", "t", "h", " ", "L", "o", "c", "a", "l", " ", "C", "h", "e", "f">>,
          <<"W", "i", "n", "e", " ", "T", "a", "s", "t", "i", "n", "g", " ", "E", "x", "p", "e", "r", "i", "e", "n", "c", "e">>,
          <<"S", "t", "r", "e", "e", "t", " ", "F", "o", "o", "d", " ", "T", "o", "u", "r">>,
          <<"G", "o", "u", "r", "m", "e", "t", " ", "D", "i", "n", "n", "e", "r", " ", "E", "x", "p", "e", "r", "i", "e", "n", "c", "e">>>>>>,
      <<<<"h", "i", "s", "t", "o", "r", "y">>,
        <<<<"H", "i", "s", "t", "o", "r", "i", "c", "a", "l", " ", "W", "a", "l", "k", "i", "n", "g", " ", "T", "o", "u", "r">>,
          <<"M", "u", "s", "e", "u", "m", " ", "G", "u", "i", "d", "e", "d", " ", "T", "o", "u", "r">>,
          <<"A", "n", "c", "i", "e", "n", "t", " ", "S", "i", "t", "e", "s", " ", "E", "x", "p", "l", "o", "r", "a", "t", "i", "o", "n">>,
          <<"H", "i", "s", "t", "o", "r", "i", "c", "a", "l", " ", "P", "a", "l", "a", "c", "e", " ", "V", "i", "s", "i", "t">>,
          <<"A", "r", "c", "h", "a", "e", "o", "l", "o", "g", "i", "c", "a", "l", " ", "T", "o", "u", "r">>>>>>,
      <<<<"a", "r", "t">>,
        <<<<"A", "r", "t", " ", "M", "u", "s", "e", "u", "m", " ", "S", "k", "i", "p", "-", "t", "h", "e", "-", "L", "i", "n", "e", " ", "T", "o", "u", "r">>,
          <<"S", "t", "r", "e", "e", "t", " ", "A", "r", "t", " ", "T", "o", "u", "r">>,
          <<"C", "o", "n", "t", "e", "m", "p", "o", "r", "a", "r", "y", " ", "G", "a", "l", "l", "e", "r", "y", " ", "V", "i", "s", "i", "t">>,
          <<"A", "r", "t", " ", "W", "o", "r", "k", "s", "h", "o", "p">>,
          <<"A", "r", "t", "i", "s", "t", " ", "S", "t", "u", "d", "i", "o", " ", "T", "o", "u", "r">>>>>>,
      <<<<"a", "d", "v", "e", "n", "t", "u", "r", "e">>,
        <<<<"H", "o", "t", " ", "A", "i", "r", " ", "B", "a", "l", "l", "o", "o", "n", " ", "R", "i", "d", "e">>,
          <<"H", "i", "k", "i", "n", "g", " ", "a", "n", "d", " ", "N", "a", "t", "u", "r", "e", " ", "T", "o", "u", "r">>,
          <<"W", "a", "t", "e", "r", " ", "S", "p", "o", "r", "t", "s", " ", "E", "x", "p", "e", "r", "i", "e", "n", "c", "e">>,
          <<"B", "i", "k", "e", " ", "T", "o", "u", "r">>,
          <<"K", "a", "y", "a", "k", "i", "n", "g", " ", "A", "d", "v", "e", "n", "t", "u", "r", "e">>>>>>,
      <<<<"c", "u", "l", "t", "u", "r", "e">>,
        <<<<"C", "u", "l", "t", "u", "r", "a", "l", " ", "W", "a", "l", "k", "i", "n", "g", " ", "T", "o", "u", "r">>,
          <<"T", "r", "a", "d", "i", "t", "i", "o", "n", "a", "l", " ", "P", "e", "r", "f", "o", "r", "m", "a", "n", "c", "e", " ", "S", "h", "o", "w">>,
          <<"L", "o", "c", "a", "l", " ", "M", "a", "r", "k", "e", "t", " ", "T", "o", "u", "r">>,
          <<"N", "e", "i", "g", "h", "b", "o", "r", "h", "o", "o", "d", " ", "D", "i", "s", "c", "o", "v", "e", "r", "y">>,
          <<"C", "u", "l", "t", "u", "r", "a", "l", " ", "W", "o", "r", "k", "s", "h", "o", "p">>>>>>,
      <<<<"g", "e", "n", "e", "r", "a", "l">>,
        <<<<"H", "o", "p", "-", "O", "n", " ", "H", "o", "p", "-", "O", "f", "f", " ", "B", "u", "s", " ", "T", "o", "u", "r">>,
          <<"C", "i", "t", "y", " ", "H", "i", "g", "h", "l", "i", "g", "h", "t", "s", " ", "T", "o", "u", "r">>,
          <<"P", "a", "n", "o", "r", "a", "m", "i", "c", " ", "C", "i", "t", "y", " ", "T", "o", "u", "r">>,
          <<"P", "r", "i", "v", "a", "t", "e", " ", "C", "i", "t", "y", " ", "G", "u", "i", "d", "e">>,
          <<"P", "h", "o", "t", "o", "g", "r", "a", "p", "h", "y", " ", "T", "o", "u", "r">>>>>>>>

\* `interest in activity_db`
in_activity_db(key) == \E i \in 1..Len(get_activity_database) : get_activity_database[i][1] = key

\* `activity_db[key]`
activity_db(key) ==
    get_activity_database[CHOOSE i \in 1..Len(get_activity_database) : get_activity_database[i][1] = key][2]

\* `[i.strip().lower() for i in interests.split(",")]`
interest_list(interests) ==
    LET parts == str_split(interests, ",")
    IN  [i \in 1..Len(parts) |-> str_lower(str_strip(parts[i]))]

RECURSIVE select_matches(_)
\* the interests of the list that are catalogue keys, in the order given
select_matches(list) ==
    IF list = <<>> THEN <<>>
    ELSE (IF in_activity_db(Head(list)) THEN <<Head(list)>> ELSE <<>>) \o select_matches(Tail(list))

\* the leading entries of a catalogue list the samples are drawn from
NumSampled == 3

\* the positions `random.sample(population, n)` can pick in a list: n distinct ones, in any order
sample_positions(list, n) == random_sample(1..Min(NumSampled, Len(list)), Min(n, Len(list)))

pick(list, positions) == [i \in 1..Len(positions) |-> list[positions[i]]]

RECURSIVE extend_matches(_, _, _)
\* `activities.extend(random.sample(activity_db[interest], ...))` for each matching interest
extend_matches(matches, draws, k) ==
    IF k > Len(matches) THEN <<>>
    ELSE pick(activity_db(matches[k]), draws[k]) \o extend_matches(matches, draws, k + 1)

any_word_in(words, name) == \E i \in 1..Len(words) : str_contains(name, words[i])

\* the category _enrich_activity determines from the name
enrich_category(activity_name) ==
    LET name == str_lower(activity_name)
    IN  IF any_word_in(<<<<"f", "o", "o", "d">>, <<"c", "o", "o", "k", "i", "n", "g">>, <<"w", "i", "n", "e">>, <<"d", "i", "n", "n", "e", "r">>>>, name)
        THEN "Food & Drink"
        ELSE IF any_word_in(<<<<"h", "i", "s", "t", "o", "r", "y">>, <<"m", "u", "s", "e", "u", "m">>, <<"a", "n", "c", "i", "e", "n", "t">>, <<"p", "a", "l", "a", "c", "e">>>>, name)
        THEN "History & Culture"
        ELSE IF any_word_in(<<<<"a", "r", "t">>, <<"g", "a", "l", "l", "e", "r", "y">>, <<"a", "r", "t", "i", "s", "t">>>>, name)
        THEN "Art & Museums"
        ELSE IF any_word_in(<<<<"a", "d", "v", "e", "n", "t", "u", "r", "e">>, <<"h", "i", "k", "i", "n", "g">>, <<"s", "p", "o", "r", "t", "s">>, <<"b", "i", "k", "e">>>>, name)
        THEN "Adventure"
        ELSE "General"

enrich_activity(activity_name) == [name |-> activity_name, category |-> enrich_category(activity_name)]

\* a list passed on whole
limit_activities_unlimited(activities) == activities

\* `activities[:6]`
limit_activities(activities) == SubSeq(activities, 1, Min(ActivityLimit, Len(activities)))

\* draws: one sample per matching interest; general_draw: the sample of the fallback
activity_run(interests, draws, general_draw) ==
    LET matches == select_matches(interest_list(interests))
        matched == extend_matches(matches, draws, 1)
        activities == IF matched = <<>> /\ in_activity_db(<<"g", "e", "n", "e", "r", "a", "l">>)
                      THEN pick(activity_db(<<"g", "e", "n", "e", "r", "a", "l">>), general_draw)
                      ELSE matched
        limited == limit_activities(activities)
    IN  [i \in 1..Len(limited) |-> enrich_activity(limited[i])]

\* the `interests` arguments tried
InterestStrings ==
    {<<"f", "o", "o", "d">>,
     <<"F", "o", "o", "d", ",", " ", "H", "i", "s", "t", "o", "r", "y", " ", ",", "a", "r", "t", ",", "g", "e", "n", "e", "r", "a", "l">>,
     <<"s", "h", "o", "p", "p", "i", "n", "g">>,
     <<"g", "e", "n", "e", "r", "a", "l">>,
     <<>>,
     <<"h", "i", "s", "t", "o", "r", "y", ",", "f", "o", "o", "d">>,
     <<"a", "d", "v", "e", "n", "t", "u", "r", "e", ",", " ", "n", "i", "g", "h", "t", "l", "i", "f", "e", ",", " ", "a", "r", "t">>}

ActivityRun ==
    /\ call = <<>>
    /\ \E interests \in InterestStrings :
          LET matches == select_matches(interest_list(interests))
          IN  \E draws \in [1..Len(matches) ->
                              sample_positions(get_activity_database[1][2], SamplePerInterest)],
                 general_draw \in IF matches = <<>>
                                  THEN sample_positions(activity_db(<<"g", "e", "n", "e", "r", "a", "l">>), GeneralSample)
                                  ELSE {<<>>} :
                 call' = <<[fn |-> "ActivitySearchTool._run", interests |-> interests,
                            draws |-> draws, general_draw |-> general_draw,
                            out |-> activity_run(interests, draws, general_draw)]>>
    /\ UNCHANGED <<mainvars, ragvars, disk, setupLog>>

ActivityInit == Init /\ env = "sk-key" /\ file = NoFile /\ ~chroma_db

ActivityNext == ActivityRun \/ PrintResult

ActivitySpec == ActivityInit /\ [][ActivityNext]_vars

\* the activities of the catalogue list `key`
CatalogueNames(key) == {activity_db(key)[i] : i \in 1..Len(activity_db(key))}

\* C27: ActivitySearchTool._run lists at most 6 activities and at least 2:
\* each interest that is a catalogue key contributes 2 activities of its list,
\* in the order the interests are given, contributions past the sixth activity
\* are dropped, and exactly 3 activities of the 'general' list are returned if
\* and only if no interest is a catalogue key.
C27_TwoPerInterestAtMostSix ==
    call # <<>> =>
        LET out == call[1].out
            matches == select_matches(interest_list(call[1].interests))
        IN  /\ Len(out) <= 6
            /\ Len(out) >= 2
            /\ matches # <<>> =>
                  /\ Len(out) = Min(6, 2 * Len(matches))
                  /\ \A k \in 1..Len(out) : out[k].name \in CatalogueNames(matches[(k + 1) \div 2])
            /\ (matches = <<>>) <=>
                  (Len(out) = 3 /\ \A k \in 1..Len(out) : out[k].name \in CatalogueNames(<<"g", "e", "n", "e", "r", "a", "l">>))

C27_Witness ==
    /\ call # <<>>
    /\ call[1].interests = <<"F", "o", "o", "d", ",", " ", "H", "i", "s", "t", "o", "r", "y", " ", ",", "a", "r", "t", ",", "g", "e", "n", "e", "r", "a", "l">>
    /\ Len(call[1].out) = 6
    /\ call[1].out[1].name = <<"W", "i", "n", "e", " ", "T", "a", "s", "t", "i", "n", "g", " ", "E", "x", "p", "e", "r", "i", "e", "n", "c", "e">>
    /\ call[1].out[4].name = <<"M", "u", "s", "e", "u", "m", " ", "G", "u", "i", "d", "e", "d", " ", "T", "o", "u", "r">>
    /\ call[1].out[6].name = <<"S", "t", "r", "e", "e", "t", " ", "A", "r", "t", " ", "T", "o", "u", "r">>

\* the category that goes with a catalogue list
ListCategory(key) ==
    CASE key = <<"f", "o", "o", "d">> -> "Food & Drink"
      [] key = <<"h", "i", "s", "t", "o", "r", "y">> -> "History & Culture"
      [] key = <<"a", "r", "t">> -> "Art & Museums"
      [] key = <<"a", "d", "v", "e", "n", "t", "u", "r", "e">> -> "Adventure"
      [] key = <<"g", "e", "n", "e", "r", "a", "l">> -> "General"

simple_knowledge_keys ==
    <<<<"v", "i", "s", "a">>,
      <<"c", "u", "r", "r", "e", "n", "c", "y">>,
      <<"t", "i", "p", "p", "i", "n", "g">>,
      <<"p", "a", "c", "k", "i", "n", "g">>,
      <<"p", "a", "r", "i", "s">>,
      <<"i", "t", "a", "l", "y">>,
      <<"m", "u", "s", "e", "u", "m", "s">>>>

\* the keys of the `knowledge` dict of TravelKnowledgeTool._run, in the order of the dict
tool_knowledge_keys ==
    <<<<"v", "i", "s", "a">>,
      <<"c", "u", "r", "r", "e", "n", "c", "y">>,
      <<"t", "i", "p", "p", "i", "n", "g">>,
      <<"p", "a", "c", "k", "i", "n", "g">>,
      <<"p", "a", "r", "i", "s">>,
      <<"i", "t", "a", "l", "y">>,
      <<"m", "u", "s", "e", "u", "m", "s">>>>

\* `destination.lower() if destination else ""`
dest_lower(destination) ==
    IF destination # <<>> /\ destination[1] # <<>> THEN str_lower(destination[1]) ELSE <<>>

\* a lookup that matches the query alone
simple_key_matches_query_only(key, query, destination) == str_contains(str_lower(query), key)

\* `key in query_lower or key in dest_lower` (simple_tools.py)
simple_key_matches(key, query, destination) ==
    str_contains(str_lower(query), key) \/ str_contains(dest_lower(destination), key)

\* `key in query_lower or key in dest_lower` (crewai_tools.py)
tool_key_matches(key, query, destination) ==
    str_contains(str_lower(query), key) \/ str_contains(dest_lower(destination), key)

RECURSIVE simple_results(_, _, _)
\* `for key, info in knowledge.items(): if ...: results.append(info)`, from position k on
simple_results(k, query, destination) ==
    IF k > Len(simple_knowledge_keys) THEN <<>>
    ELSE (IF simple_key_matches(simple_knowledge_keys[k], query, destination)
          THEN <<[variant |-> "simple_tools", key |-> simple_knowledge_keys[k]]>>
          ELSE <<>>) \o simple_results(k + 1, query, destination)

RECURSIVE tool_results(_, _, _)
tool_results(k, query, destination) ==
    IF k > Len(tool_knowledge_keys) THEN <<>>
    ELSE (IF tool_key_matches(tool_knowledge_keys[k], query, destination)
          THEN <<[variant |-> "crewai_tools", key |-> tool_knowledge_keys[k]]>>
          ELSE <<>>) \o tool_results(k + 1, query, destination)

\* the key that names the fallback tip, which is no key of the dicts
GeneralTip == <<"G", "e", "n", "e", "r", "a", "l", " ", "t", "i", "p">>

get_travel_knowledge(query, destination) ==
    LET results == simple_results(1, query, destination)
    IN  [for_destination |-> destination # <<>> /\ destination[1] # <<>>,
         results |-> IF results = <<>>
                     THEN <<[variant |-> "simple_tools", key |-> GeneralTip]>>
                     ELSE results]

TravelKnowledgeTool_run(query, destination) ==
    LET results == tool_results(1, query, destination)
    IN  [for_destination |-> destination # <<>> /\ destination[1] # <<>>,
         results |-> IF results = <<>>
                     THEN <<[variant |-> "crewai_tools", key |-> GeneralTip]>>
                     ELSE results]

\* the `query` arguments tried
KnowledgeQueries ==
    {<<"V", "i", "s", "a", " ", "r", "u", "l", "e", "s">>,
     <<"t", "i", "p", "p", "i", "n", "g", " ", "a", "n", "d", " ", "c", "u", "r", "r", "e", "n", "c", "y">>,
     <<"b", "e", "s", "t", " ", "M", "U", "S", "E", "U", "M", "S", " ", "i", "n", " ", "P", "a", "r", "i", "s">>,
     <<"w", "e", "a", "t", "h", "e", "r">>,
     <<>>,
     <<"W", "h", "a", "t", " ", "t", "o", " ", "p", "a", "c", "k">>,
     <<"i", "t", "a", "l", "y", " ", "v", "i", "s", "a">>,
     <<"P", "a", "r", "i", "s", "i", "a", "n", " ", "c", "a", "f", "e", "s">>}

\* the `destination` arguments tried
KnowledgeDestinations ==
    {<<>>,
     <<<<>>>>,
     <<<<"P", "a", "r", "i", "s">>>>,
     <<<<"I", "T", "A", "L", "Y">>>>,
     <<<<"T", "o", "k", "y", "o">>>>,
     <<<<"P", "a", "r", "i", "s", " ", "m", "u", "s", "e", "u", "m", "s">>>>,
     <<<<"v", "i", "s", "a">>>>}

CallGetTravelKnowledge ==
    /\ call = <<>>
    /\ \E query \in KnowledgeQueries, destination \in KnowledgeDestinations :
          call' = <<[fn |-> "get_travel_knowledge", query |-> query, destination |-> destination,
                     out |-> get_travel_knowledge(query, destination)]>>
    /\ UNCHANGED <<mainvars, ragvars, disk, setupLog>>

CallTravelKnowledgeTool ==
    /\ call = <<>>
    /\ \E query \in KnowledgeQueries, destination \in KnowledgeDestinations :
          call' = <<[fn |-> "TravelKnowledgeTool._run", query |-> query, destination |-> destination,
                     out |-> TravelKnowledgeTool_run(query, destination)]>>
    /\ UNCHANGED <<mainvars, ragvars, disk, setupLog>>

KnowledgeInit == Init /\ env = "sk-key" /\ file = NoFile /\ ~chroma_db

KnowledgeNext == CallGetTravelKnowledge \/ CallTravelKnowledgeTool \/ PrintResult

KnowledgeSpec == KnowledgeInit /\ [][KnowledgeNext]_vars

\* the seven knowledge keys, in the fixed order
KnowledgeKeys ==
    <<<<"v", "i", "s", "a">>,
      <<"c", "u", "r", "r", "e", "n", "c", "y">>,
      <<"t", "i", "p", "p", "i", "n", "g">>,
      <<"p", "a", "c", "k", "i", "n", "g">>,
      <<"p", "a", "r", "i", "s">>,
      <<"i", "t", "a", "l", "y">>,
      <<"m", "u", "s", "e", "u", "m", "s">>>>

\* the key occurs in the lower-cased query or in the lower-cased destination
KeyOccurs(key, query, destination) ==
    \/ str_contains(str_lower(query), key)
    \/ destination # <<>> /\ str_contains(str_lower(destination[1]), key)

\* the keys a result names
KeysOf(results) == {results[i].key : i \in 1..Len(results)}

\* the position of a key in the fixed order, 0 for the fallback tip
KeyPosition(key) ==
    IF \E k \in 1..Len(KnowledgeKeys) : KnowledgeKeys[k] = key
    THEN CHOOSE k \in 1..Len(KnowledgeKeys) : KnowledgeKeys[k] = key
    ELSE 0

\* C29: the keyword-matched lookup returns the entry of each knowledge key
\* that occurs in the lower-cased query or the lower-cased destination, each
\* once and in the fixed key order; the fallback tip is returned if and only
\* if no key occurs; and both variants select the same keys for the same input.
C29_LookupReturnsMatchingKeys ==
    call # <<>> =>
        LET c == call[1]
            results == c.out.results
            occurring == {k \in 1..Len(KnowledgeKeys) : KeyOccurs(KnowledgeKeys[k], c.query, c.destination)}
        IN  /\ \A k \in occurring : \E i \in 1..Len(results) : results[i].key = KnowledgeKeys[k]
            /\ \A i \in 1..Len(results) :
                  results[i].key # GeneralTip => KeyPosition(results[i].key) \in occurring
            /\ \A i, j \in 1..Len(results) :
                  i < j => KeyPosition(results[i].key) < KeyPosition(results[j].key)
            /\ (occurring = {}) <=> (results = <<[variant |-> results[1].variant, key |-> GeneralTip]>>)
            /\ KeysOf(get_travel_knowledge(c.query, c.destination).results)
                  = KeysOf(TravelKnowledgeTool_run(c.query, c.destination).results)
            /\ KeysOf(results) = KeysOf(get_travel_knowledge(c.query, c.destination).results)

C29_Witness ==
    /\ call # <<>>
    /\ call[1].fn = "get_travel_knowledge"
    /\ call[1].query = <<"b", "e", "s", "t", " ", "M", "U", "S", "E", "U", "M", "S", " ", "i", "n", " ", "P", "a", "r", "i", "s">>
    /\ call[1].destination = <<<<"I", "T", "A", "L", "Y">>>>
    /\ Len(call[1].out.results) = 3
    /\ call[1].out.results[1].key = <<"p", "a", "r", "i", "s">>
    /\ call[1].out.results[2].key = <<"i", "t", "a", "l", "y">>
    /\ call[1].out.results[3].key = <<"m", "u", "s", "e", "u", "m", "s">>

(***************************************************************************)
(* setup.py and tools/rag_tool_setup.py: the setup steps on the working    *)
(* directory.  A step is a function from the disk it finds to the disk it  *)
(* leaves; an exception ends the step where it is raised.                  *)
(***************************************************************************)
\* `directories` of create_directory_structure, in order
directories == <<"agents", "tools", "data", "data/travel_knowledge", "data/chroma_db">>

\* `init_files` of create_directory_structure, in order
init_files == <<"agents/__init__.py", "tools/__init__.py">>

\* the keys of `documents` of _create_sample_documents, in order, joined to the path
sample_filepaths ==
    <<"data/travel_knowledge/europe_travel.txt", "data/travel_knowledge/paris_guide.txt",
      "data/travel_knowledge/luxury_travel.txt">>

\* the directory a path lies in; "." is the working directory itself
Parent(path) ==
    CASE path \in {"agents/__init__.py"} -> "agents"
      [] path \in {"tools/__init__.py"} -> "tools"
      [] path \in {"data/travel_knowledge", "data/chroma_db"} -> "data"
      [] path \in SampleDocuments -> "data/travel_knowledge"
      [] OTHER -> "."

IsDir(d, path) == path = "." \/ d[path] = <<"dir">>

\* os.path.exists
path_exists(d, path) == path = "." \/ d[path] # <<>>

RECURSIVE makedirs(_, _)
\* os.makedirs(path, exist_ok=True): the parents first; raises on a path that is a file
makedirs(d, path) ==
    IF path = "." THEN [disk |-> d, raised |-> FALSE]
    ELSE LET up == makedirs(d, Parent(path))
         IN  IF up.raised THEN up
             ELSE IF up.disk[path] = <<>>
                  THEN [disk |-> [up.disk EXCEPT ![path] = <<"dir">>], raised |-> FALSE]
                  ELSE [disk |-> up.disk, raised |-> up.disk[path] # <<"dir">>]

\* `with open(path, 'w') as f: f.write(content)`: raises when the directory is
\* missing or the path is a directory
open_w(d, path, content) ==
    IF IsDir(d, Parent(path)) /\ d[path] # <<"dir">>
    THEN [disk |-> [d EXCEPT ![path] = <<"file", content>>], raised |-> FALSE]
    ELSE [disk |-> d, raised |-> TRUE]

RECURSIVE make_directories(_, _)
\* `for directory in directories: os.makedirs(directory, exist_ok=True)`, from position k on
make_directories(d, k) ==
    IF k > Len(directories) THEN [disk |-> d, raised |-> FALSE]
    ELSE LET made == makedirs(d, directories[k])
         IN  IF made.raised THEN made ELSE make_directories(made.disk, k + 1)

RECURSIVE write_missing(_, _, _, _)
\* `for path ...: if not os.path.exists(path): open(path, 'w') ...`, from position k on;
\* content[k] is what is written to paths[k]
write_missing(d, paths, content, k) ==
    IF k > Len(paths) THEN [disk |-> d, raised |-> FALSE]
    ELSE IF path_exists(d, paths[k]) THEN write_missing(d, paths, content, k + 1)
    ELSE LET written == open_w(d, paths[k], content[k])
         IN  IF written.raised THEN written
             ELSE write_missing(written.disk, paths, content, k + 1)

create_directory_structure(d) ==
    LET made == make_directories(d, 1)
    IN  IF made.raised THEN made
        ELSE write_missing(made.disk, init_files,
                           <<"Package initialization", "Package initialization">>, 1)

\* a step that copies the template whether or not .env exists
check_env_file_overwrites(d) ==
    IF path_exists(d, ".env.example")
    THEN IF d[".env.example"] = <<"dir">> THEN [disk |-> d, raised |-> TRUE]
         ELSE open_w(d, ".env", d[".env.example"][2])
    ELSE [disk |-> d, raised |-> FALSE]

check_env_file(d) ==
    IF ~path_exists(d, ".env")
    THEN IF path_exists(d, ".env.example")
         THEN IF d[".env.example"] = <<"dir">> THEN [disk |-> d, raised |-> TRUE]
              ELSE open_w(d, ".env", d[".env.example"][2])
         ELSE [disk |-> d, raised |-> FALSE]
    ELSE [disk |-> d, raised |-> FALSE]

\* _create_sample_documents("./data/travel_knowledge")
create_sample_documents(d) ==
    write_missing(d, sample_filepaths,
                  <<"europe sample", "paris sample", "luxury sample">>, 1)

\* a path holds nothing unless the directory it lies in is a directory
ConsistentDisk(d) == \A p \in DOMAIN d : d[p] # <<>> => IsDir(d, Parent(p))

\* what a working directory can hold before a step runs: each path absent, a
\* directory or a file
InitialKinds ==
    {d \in [SetupDirs \cup SetupFiles -> {<<>>, <<"dir">>, <<"file", "user content">>}] :
        /\ ConsistentDisk(d)
        /\ \A p \in SetupFiles : d[p] # <<"dir">>}

\* .env.example, where it exists, holds the template
WithTemplate(d) ==
    [d EXCEPT ![".env.example"] = IF @ = <<>> THEN <<>> ELSE <<"file", "template">>]

\* the log keeps the latest two steps
Latest(log) == IF Len(log) > 2 THEN SubSeq(log, Len(log) - 1, Len(log)) ELSE log

CreateDirectoryStructure ==
    /\ disk' = create_directory_structure(disk).disk
    /\ setupLog' = Latest(Append(setupLog, [step |-> "create_directory_structure", found |-> disk,
                                            raised |-> create_directory_structure(disk).raised]))
    /\ UNCHANGED <<mainvars, ragvars, call>>

CheckEnvFile ==
    /\ disk' = check_env_file(disk).disk
    /\ setupLog' = Latest(Append(setupLog, [step |-> "check_env_file", found |-> disk,
                                            raised |-> check_env_file(disk).raised]))
    /\ UNCHANGED <<mainvars, ragvars, call>>

CreateSampleDocuments ==
    /\ disk' = create_sample_documents(disk).disk
    /\ setupLog' = Latest(Append(setupLog, [step |-> "_create_sample_documents", found |-> disk,
                                            raised |-> create_sample_documents(disk).raised]))
    /\ UNCHANGED <<mainvars, ragvars, call>>

SetupInit ==
    /\ pc = "load_env"
    /\ env = "sk-key"
    /\ crew = <<>>
    /\ idx = 0
    /\ status = <<>>
    /\ output = <<>>
    /\ calls = <<>>
    /\ result = None
    /\ stdout = <<>>
    /\ file = NoFile
    /\ writes = 0
    /\ uncaught = FALSE
    /\ _initialized = FALSE
    /\ _vectorstore = <<>>
    /\ instances = <<>>
    /\ initAttempts = 0
    /\ initCompleted = 0
    /\ chroma_db = FALSE
    /\ lastRun = <<>>
    /\ call = <<>>
    /\ \E d \in InitialKinds : disk = WithTemplate(d)
    /\ setupLog = <<>>

SetupNext == CreateDirectoryStructure \/ CheckEnvFile \/ CreateSampleDocuments

SetupSpec == SetupInit /\ [][SetupNext]_vars

\* the latest step of the log
LatestStep == setupLog[Len(setupLog)]

\* C30: the setup steps never overwrite what exists and are idempotent: a
\* step leaves every path that held something as it was; check_env_file
\* creates .env, as a copy of .env.example, only when .env is absent and
\* .env.example exists; the sample step writes a sample file only when it
\* does not exist; and a step run twice in a row leaves, the second time,
\* the disk as the first run left it.
C30_SetupNeverOverwritesAndIsIdempotent ==
    setupLog # <<>> =>
        LET found == LatestStep.found
        IN  /\ \A p \in DOMAIN disk : found[p] # <<>> => disk[p] = found[p]
            /\ LatestStep.step = "check_env_file" =>
                  /\ disk[".env"] # found[".env"] =>
                        (found[".env"] = <<>> /\ found[".env.example"] # <<>>
                            /\ disk[".env"] = found[".env.example"])
                  /\ \A p \in DOMAIN disk : p # ".env" => disk[p] = found[p]
            /\ LatestStep.step = "create_directory_structure" =>
                  \A p \in SetupFiles : disk[p] # found[p] =>
                      (p \in {"agents/__init__.py", "tools/__init__.py"} /\ found[p] = <<>>)
            /\ LatestStep.step = "_create_sample_documents" =>
                  \A p \in DOMAIN disk : disk[p] # found[p] =>
                      (p \in SampleDocuments /\ found[p] = <<>>)
            /\ (Len(setupLog) = 2 /\ setupLog[1].step = setupLog[2].step) => disk = found

C30_Witness ==
    /\ Len(setupLog) = 2
    /\ setupLog[1].step = "check_env_file"
    /\ setupLog[2].step = "check_env_file"
    /\ setupLog[1].found[".env"] = <<>>
    /\ setupLog[1].found[".env.example"] = <<"file", "template">>
    /\ disk[".env"] = <<"file", "template">>
    /\ disk["agents/__init__.py"] = <<"file", "user content">>

====
